---- MODULE Spec2Model ----
(***************************************************************************)
(* Session / connection / shutdown core of the MCP Linear server.          *)
(*                                                                         *)
(* Two layouts of the same core are present in the sources:                *)
(*   "modular"  - src/src/server/connection.ts + src/src/server/transport.ts *)
(*                started by startServer (src/src/server.ts:898-946);      *)
(*   "monolith" - src/src/server.ts:2325-2480 (same text at 714-869).      *)
(* The error, message and heartbeat handlers are textually the same in     *)
(* both; shutdown and the start-up order differ.  The layout is fixed in   *)
(* Init and never changes.                                                 *)
(*                                                                         *)
(* Time is kept as elapsed time: timeSinceLastHeartbeat is                 *)
(* Date.now() - connectionState.lastHeartbeat, every timer carries the     *)
(* time elapsed since it was armed.  Elapsed times saturate once they are  *)
(* past every threshold they are compared with.  A timer may fire late     *)
(* (the event loop gives no upper bound) but never early.                  *)
(*                                                                         *)
(* One action is one run of a handler up to its first suspension point     *)
(* (await on a timer, on transport.close() or on server.connect()).        *)
(***************************************************************************)
EXTENDS Integers, Sequences, FiniteSets, TLC

\* ---- program constants -------------------------------------------------
API_TIMEOUT_MS == 30000
CACHE_TTL_MS == 5 * 60 * 1000
HEARTBEAT_INTERVAL_MS == 10000
SHUTDOWN_GRACE_PERIOD_MS == 5000
MAX_RECONNECT_ATTEMPTS == 3
RECONNECT_DELAY_MS == 2000

\* ---- bounds of the model -----------------------------------------------
\* Largest number of clock advances in the life of a cache.
MaxAdvances == 3

\* Longest item list and largest batch size given to processBatch.
MaxItems == 3
MaxBatchSize == 3

\* Largest number of clock advances of the swept and unswept cache pair.
MaxSweepAdvances == 2

\* Largest number of clock advances of the cache behind the lookups.
MaxLookupAdvances == 1

\* Longest list of issue ids given to linear_bulk_update_status.
MaxIssues == 2

\* Largest number of heartbeat intervals alive at once (one is created by
\* every inbound message); inbound messages are not delivered beyond it.
MaxChecks == 2

\* The clock is observed every ClockStep milliseconds, the longest of the
\* program's delays.
ClockStep == HEARTBEAT_INTERVAL_MS
\* Saturation point of timeSinceLastHeartbeat: one step past the threshold.
AgeCap == (HEARTBEAT_INTERVAL_MS * 2) + ClockStep

Layouts == {"monolith", "modular"}
Methods == {"initialize", "initialized", "server/heartbeat", "tools/call"}
\* error.code of an error object: "EPIPE" or anything else
ErrorCodes == {"EPIPE", "ECONNRESET"}

Min(a, b) == IF a < b THEN a ELSE b

RemoveAt(seq, i) == SubSeq(seq, 1, i - 1) \o SubSeq(seq, i + 1, Len(seq))

VARIABLES
    layout,                 \* which of the two layouts is running
    pcStart,                \* position of the start-up code
    isConnected,            \* connectionState.isConnected
    reconnectAttempts,      \* connectionState.reconnectAttempts
    timeSinceLastHeartbeat, \* Date.now() - connectionState.lastHeartbeat
    isPipeActive,           \* connectionState.isPipeActive
    isShuttingDown,         \* connectionState.isShuttingDown
    reconnectTimers,        \* pending setTimeout(.., RECONNECT_DELAY_MS): elapsed times, oldest first
    connecting,             \* reconnect calls to server.connect() not yet settled
    heartbeatChecks,        \* live setInterval(.., HEARTBEAT_INTERVAL_MS): time since last firing, longest first
    pcShutdown,             \* position of the one shutdown() run that passed the latch
    graceElapsed,           \* time since the grace timer of shutdown() was armed
    exited,                 \* process.exit() has been called
    exitCode,               \* its status (-1 while running)
    obs,                    \* observation counters, never read by the program
    wt,                     \* one call of withTimeout: the race and what the caller gets
    sc,                     \* one SimpleCache: its Map, the clock, the last operation
    pb,                     \* one run of processBatch
    bu,                     \* one invocation of linear_bulk_update_status
    sw,                     \* the twin of sc that is never swept
    lk                      \* one call of a cache-backed lookup

\* The variables of the session core, of the helpers, and all of them.
connVars == <<layout, pcStart, isConnected, reconnectAttempts, timeSinceLastHeartbeat,
              isPipeActive, isShuttingDown, reconnectTimers, connecting, heartbeatChecks,
              pcShutdown, graceElapsed, exited, exitCode, obs>>

utilVars == <<wt, sc, pb, bu, sw, lk>>

vars == <<connVars, utilVars>>

\* The whole state as one record, so that handlers that call each other
\* compose as functions from state to state.
Cur ==
    [layout |-> layout, pcStart |-> pcStart, isConnected |-> isConnected,
     reconnectAttempts |-> reconnectAttempts,
     timeSinceLastHeartbeat |-> timeSinceLastHeartbeat,
     isPipeActive |-> isPipeActive, isShuttingDown |-> isShuttingDown,
     reconnectTimers |-> reconnectTimers, connecting |-> connecting,
     heartbeatChecks |-> heartbeatChecks, pcShutdown |-> pcShutdown,
     graceElapsed |-> graceElapsed, exited |-> exited, exitCode |-> exitCode,
     obs |-> obs]

Commit(s) ==
    /\ layout' = s.layout
    /\ pcStart' = s.pcStart
    /\ isConnected' = s.isConnected
    /\ reconnectAttempts' = s.reconnectAttempts
    /\ timeSinceLastHeartbeat' = s.timeSinceLastHeartbeat
    /\ isPipeActive' = s.isPipeActive
    /\ isShuttingDown' = s.isShuttingDown
    /\ reconnectTimers' = s.reconnectTimers
    /\ connecting' = s.connecting
    /\ heartbeatChecks' = s.heartbeatChecks
    /\ pcShutdown' = s.pcShutdown
    /\ graceElapsed' = s.graceElapsed
    /\ exited' = s.exited
    /\ exitCode' = s.exitCode
    /\ obs' = s.obs
    /\ UNCHANGED utilVars

\* Observation counters:
\*   teardowns     runs of shutdown() that passed the latch
\*   closeCalls    calls of transport.close()
\*   closeSettled  of these, how many have settled
\*   graceWaits    grace timers armed
\*   exits         calls of process.exit()
\*   scheduled     reconnect timers armed by transport.onerror
\*   connectCalls  reconnect calls of server.connect()
\*   liveErrors    non-pipe errors given to transport.onerror while not shutting down
\*   lost          a non-pipe error was received and no reconnect has succeeded since
\*   latchHit      some call of shutdown() returned at the isShuttingDown latch
\*   heartbeatTimedOut  some heartbeat check synthesized a timeout error
ObsInit ==
    [teardowns |-> 0, closeCalls |-> 0, closeSettled |-> 0, graceWaits |-> 0,
     exits |-> 0, scheduled |-> 0, connectCalls |-> 0, liveErrors |-> 0,
     lost |-> FALSE, latchHit |-> FALSE, heartbeatTimedOut |-> FALSE]

\* ---- the helpers before their first use ---------------------------------
NoOutcome == [kind |-> "none"]

WtIdle ==
    [phase |-> "idle", arg |-> << >>, timeoutMs |-> 0, context |-> "", elapsed |-> 0,
     timer |-> "none", opResult |-> NoOutcome, race |-> NoOutcome,
     outcome |-> NoOutcome, settles |-> 0, logged |-> FALSE, first |-> "none"]

\* What a lookup returns for a missing or expired key.
Null == "null"

\* A new SimpleCache: an empty Map.  `last` is the operation done last:
\* its name, key, value (argument of set, result of get), ttl argument, and
\* for a get whether it found an expired entry and whether it came right
\* after a set of the same key; for cleanup the expiredCount; for a set the
\* value it replaced.
EmptyMap == [k \in {} |-> Null]

ScIdle ==
    [cache |-> EmptyMap, now |-> 0, advances |-> 0,
     last |-> [op |-> "new", key |-> "", value |-> Null, ttl |-> << >>,
               expired |-> FALSE, afterSet |-> FALSE, expiredCount |-> 0,
               replaced |-> Null]]

\* processBatch before it is called.  `slots` is the array Promise.all is
\* filling for the batch under way, `pending` the positions in items whose
\* processFn has not settled, `order` the positions in the order in which
\* they settled, `progress` the calls of onProgress.
Pending == <<"pending">>

PbIdle ==
    [status |-> "idle", items |-> << >>, batchSize |-> 0, i |-> 0,
     slots |-> << >>, pending |-> {}, results |-> << >>, progress |-> << >>,
     error |-> "none", order |-> << >>]

\* The bulk status update before it is invoked.  `pc` is where each item's
\* operation waits, `calls` the upstream calls issued for each item,
\* `teamCached` / `statesCached` what the helpers' caches hold.
BuIdle ==
    [status |-> "idle", issueIds |-> << >>, pc |-> << >>, calls |-> << >>,
     successful |-> << >>, failed |-> << >>,
     teamCached |-> FALSE, statesCached |-> "none"]

\* A cache-backed lookup before it is called: `fn` is the helper, `pc`
\* where it stands, `wrote` whether this call has written to the cache.
LkIdle == [pc |-> "idle", fn |-> "none", wrote |-> FALSE]

UtilIdle ==
    /\ wt = WtIdle
    /\ sc = ScIdle
    /\ pb = PbIdle
    /\ bu = BuIdle
    /\ sw = ScIdle
    /\ lk = LkIdle

ConnInit ==
    /\ layout \in Layouts
    /\ pcStart = "env"
    /\ isConnected = FALSE
    /\ reconnectAttempts = 0
    /\ timeSinceLastHeartbeat = 0
    /\ isPipeActive = TRUE
    /\ isShuttingDown = FALSE
    /\ reconnectTimers = << >>
    /\ connecting = 0
    /\ heartbeatChecks = << >>
    /\ pcShutdown = "none"
    /\ graceElapsed = 0
    /\ exited = FALSE
    /\ exitCode = -1
    /\ obs = ObsInit

Init ==
    /\ ConnInit
    /\ UtilIdle

\* ---- process.exit -------------------------------------------------------
processExit(s, code) ==
    [s EXCEPT !.exited = TRUE, !.exitCode = code, !.obs.exits = @ + 1]

\* ---- shutdown -----------------------------------------------------------
\* Arms the grace timer: await new Promise(resolve => setTimeout(resolve, SHUTDOWN_GRACE_PERIOD_MS))
armGrace(s) ==
    [s EXCEPT !.pcShutdown = "grace", !.graceElapsed = 0, !.obs.graceWaits = @ + 1]

\* The monolith calls transport.close() when the pipe is still active; the
\* modular shutdown has no close step.
closesTransport(s) == s.layout = "monolith" /\ s.isPipeActive

\* shutdown() without the return at the latch.
shutdown_noLatch(s) ==
    LET s1 == [s EXCEPT !.isShuttingDown = TRUE, !.obs.teardowns = @ + 1]
    IN  IF closesTransport(s1)
        THEN [s1 EXCEPT !.pcShutdown = "closing", !.obs.closeCalls = @ + 1]
        ELSE armGrace(s1)

\* shutdown() setting the latch only after the close has been awaited.
shutdown_latchAfterClose(s) ==
    IF s.isShuttingDown
    THEN [s EXCEPT !.obs.latchHit = TRUE]
    ELSE IF closesTransport(s)
         THEN [s EXCEPT !.pcShutdown = "closing", !.obs.teardowns = @ + 1,
                        !.obs.closeCalls = @ + 1]
         ELSE armGrace([s EXCEPT !.isShuttingDown = TRUE, !.obs.teardowns = @ + 1])

\* shutdown() up to its first await.
shutdown(s) ==
    IF s.isShuttingDown
    THEN [s EXCEPT !.obs.latchHit = TRUE]
    ELSE LET s1 == [s EXCEPT !.isShuttingDown = TRUE, !.obs.teardowns = @ + 1]
         IN  IF closesTransport(s1)
             THEN [s1 EXCEPT !.pcShutdown = "closing", !.obs.closeCalls = @ + 1]
             ELSE armGrace(s1)

\* ---- handlePipeError ----------------------------------------------------
\* The comparison made against another error code.
isPipeError_wrongCode(code) == code = "ECONNRESET"

isPipeError(code) == code = "EPIPE"

\* A broken pipe during the grace period starting the grace period over.
handlePipeError_restartsGrace(s, code) ==
    IF isPipeError(code)
    THEN LET s1 == [s EXCEPT !.isPipeActive = FALSE]
         IN  IF ~s1.isShuttingDown THEN shutdown(s1)
             ELSE IF s1.pcShutdown = "grace" THEN armGrace(s1) ELSE s1
    ELSE s

handlePipeError(s, code) ==
    IF isPipeError(code)
    THEN LET s1 == [s EXCEPT !.isPipeActive = FALSE]
         IN  IF ~s1.isShuttingDown THEN shutdown(s1) ELSE s1
    ELSE s

\* ---- transport.onerror --------------------------------------------------
\* The retry condition of the snapshot that had no shutdown latch.
mayReconnect_noLatch(s) ==
    s.reconnectAttempts < MAX_RECONNECT_ATTEMPTS

\* The retry condition without the bound.
mayReconnect_noBound(s) ==
    ~s.isShuttingDown

\* The retry condition with <= for <.
mayReconnect_offByOne(s) ==
    ~s.isShuttingDown /\ s.reconnectAttempts <= MAX_RECONNECT_ATTEMPTS

mayReconnect(s) ==
    ~s.isShuttingDown /\ s.reconnectAttempts < MAX_RECONNECT_ATTEMPTS

\* An error handler that marks the session disconnected.
onerror_disconnects(s, code) ==
    LET s0 == [s EXCEPT !.isConnected = FALSE]
    IN  IF isPipeError(code)
        THEN handlePipeError(s0, code)
        ELSE IF mayReconnect(s0)
             THEN [s0 EXCEPT !.reconnectAttempts = @ + 1,
                             !.reconnectTimers = Append(@, 0),
                             !.obs.scheduled = @ + 1,
                             !.obs.liveErrors = @ + 1, !.obs.lost = TRUE]
             ELSE IF ~s0.isShuttingDown
                  THEN shutdown([s0 EXCEPT !.obs.liveErrors = @ + 1,
                                           !.obs.lost = TRUE])
                  ELSE s0

onerror(s, code) ==
    IF isPipeError(code)
    THEN handlePipeError(s, code)
    ELSE LET s0 == IF s.isShuttingDown THEN s
                   ELSE [s EXCEPT !.obs.liveErrors = @ + 1, !.obs.lost = TRUE]
         IN  IF mayReconnect(s0)
             THEN [s0 EXCEPT !.reconnectAttempts = @ + 1,
                             !.reconnectTimers = Append(@, 0),
                             !.obs.scheduled = @ + 1]
             ELSE IF ~s0.isShuttingDown
                  THEN shutdown(s0)
                  ELSE s0

\* ---- the reconnect timer callback ---------------------------------------
\* The callback without its test of isPipeActive.
reconnectTimer_ignoresPipe(s) ==
    [s EXCEPT !.reconnectTimers = Tail(@), !.connecting = @ + 1,
              !.obs.connectCalls = @ + 1]

\* Up to the await of server.connect(transport) or of shutdown().
reconnectTimer(s) ==
    LET s1 == [s EXCEPT !.reconnectTimers = Tail(@)]
    IN  IF ~s1.isPipeActive
        THEN shutdown(s1)
        ELSE [s1 EXCEPT !.connecting = @ + 1, !.obs.connectCalls = @ + 1]

\* A successful reconnection that gives the attempts back.
reconnectSettled_resetsAttempts(s, ok) ==
    LET s1 == [s EXCEPT !.connecting = @ - 1]
    IN  IF ok
        THEN [s1 EXCEPT !.isConnected = TRUE, !.reconnectAttempts = 0,
                        !.obs.lost = FALSE]
        ELSE IF s1.reconnectAttempts >= MAX_RECONNECT_ATTEMPTS
             THEN shutdown(s1)
             ELSE s1

\* The continuation after server.connect(transport) settled.
reconnectSettled(s, ok) ==
    LET s1 == [s EXCEPT !.connecting = @ - 1]
    IN  IF ok
        THEN [s1 EXCEPT !.isConnected = TRUE, !.obs.lost = FALSE]
        ELSE IF s1.reconnectAttempts >= MAX_RECONNECT_ATTEMPTS
             THEN shutdown(s1)
             ELSE s1

\* ---- transport.onmessage ------------------------------------------------
onmessage(s, method) ==
    LET s1 == IF method = "initialize"
              THEN [s EXCEPT !.isConnected = TRUE, !.timeSinceLastHeartbeat = 0]
              ELSE IF method = "initialized"
              THEN [s EXCEPT !.isConnected = TRUE]
              ELSE IF method = "server/heartbeat"
              THEN [s EXCEPT !.timeSinceLastHeartbeat = 0]
              ELSE s
    IN  [s1 EXCEPT !.heartbeatChecks = Append(@, 0)]

\* ---- heartbeatCheck -----------------------------------------------------
\* The staleness test with >= for >.
heartbeatStale_inclusive(age) == age >= HEARTBEAT_INTERVAL_MS * 2

heartbeatStale(age) == age > HEARTBEAT_INTERVAL_MS * 2

heartbeatCheck(s, i) ==
    IF heartbeatStale(s.timeSinceLastHeartbeat)
    THEN onerror([s EXCEPT !.heartbeatChecks = RemoveAt(@, i),
                           !.obs.heartbeatTimedOut = TRUE], "Heartbeat timeout")
    ELSE [s EXCEPT !.heartbeatChecks = Append(RemoveAt(@, i), 0)]

\* ---- shutdown, after its awaits -----------------------------------------
\* A failed close that throws out of shutdown(), before the grace timer.
closeSettled_rethrows(s, outcome) ==
    LET s1 == [s EXCEPT !.obs.closeSettled = @ + 1]
    IN  IF outcome = "ok"
        THEN armGrace(s1)
        ELSE [handlePipeError(s1, outcome) EXCEPT !.pcShutdown = "none"]

\* transport.close() settled: resolved ("ok") or rejected with an error code.
closeSettled(s, outcome) ==
    LET s1 == [s EXCEPT !.obs.closeSettled = @ + 1]
        s2 == IF outcome = "ok" THEN s1 ELSE handlePipeError(s1, outcome)
    IN  armGrace(s2)

\* The exit not waiting for the grace timer.
graceOver_immediate(s) == TRUE

graceOver(s) == s.graceElapsed >= SHUTDOWN_GRACE_PERIOD_MS

\* A shutdown that reports a broken pipe as a failure.
shutdownExitCode_pipe(s) == IF s.isPipeActive THEN 0 ELSE 1

shutdownExitCode(s) == 0

graceElapses(s) ==
    processExit([s EXCEPT !.pcShutdown = "done"], shutdownExitCode(s))

\* ---- start-up -----------------------------------------------------------
startupExitCode(s) == 1

\* Signal and fault handlers are registered before the upstream check in the
\* monolith, after it in the modular layout.
handlersInstalled(s) ==
    \/ s.layout = "monolith" /\ s.pcStart \in {"verify", "connect", "running"}
    \/ s.layout = "modular" /\ s.pcStart \in {"connect", "running"}

\* The transport delivers messages and errors once server.connect() has
\* started it.
transportStarted(s) == s.pcStart = "running"

startStep(s, ok) ==
    IF ~ok
    THEN processExit(s, startupExitCode(s))
    ELSE [s EXCEPT !.pcStart = CASE s.pcStart = "env" -> "verify"
                                 [] s.pcStart = "verify" -> "connect"
                                 [] OTHER -> "running"]

\* ---- the clock ----------------------------------------------------------
AdvanceAll(seq, cap) == [i \in 1..Len(seq) |-> Min(seq[i] + ClockStep, cap)]

tick(s) ==
    [s EXCEPT !.timeSinceLastHeartbeat = Min(@ + ClockStep, AgeCap),
              !.reconnectTimers = AdvanceAll(@, RECONNECT_DELAY_MS),
              !.heartbeatChecks = AdvanceAll(@, HEARTBEAT_INTERVAL_MS),
              !.graceElapsed = IF s.pcShutdown = "grace"
                               THEN Min(@ + ClockStep, SHUTDOWN_GRACE_PERIOD_MS)
                               ELSE @]

\* ---- actions ------------------------------------------------------------
\* Environment validation and client construction.
EnvCheck(ok) ==
    /\ ~exited /\ pcStart = "env"
    /\ Commit(startStep(Cur, ok))

\* Upstream verification.
VerifyApi(ok) ==
    /\ ~exited /\ pcStart = "verify"
    /\ Commit(startStep(Cur, ok))

\* The initial server.connect(transport).
InitialConnect(ok) ==
    /\ ~exited /\ pcStart = "connect"
    /\ Commit(startStep(Cur, ok))

\* SIGINT or SIGTERM.
Signal ==
    /\ ~exited /\ handlersInstalled(Cur)
    /\ Commit(shutdown(Cur))

\* uncaughtException or unhandledRejection.
Fault ==
    /\ ~exited /\ handlersInstalled(Cur)
    /\ Commit(shutdown(Cur))

\* 'error' on process.stdin / process.stdout (modular layout only).
StdioError(code) ==
    /\ ~exited /\ layout = "modular" /\ handlersInstalled(Cur)
    /\ Commit(handlePipeError(Cur, code))

TransportError(code) ==
    /\ ~exited /\ transportStarted(Cur)
    /\ Commit(onerror(Cur, code))

ReconnectTimerFires ==
    /\ ~exited /\ reconnectTimers # << >>
    /\ Head(reconnectTimers) >= RECONNECT_DELAY_MS
    /\ Commit(reconnectTimer(Cur))

ReconnectSettles(ok) ==
    /\ ~exited /\ connecting > 0
    /\ Commit(reconnectSettled(Cur, ok))

Message(method) ==
    /\ ~exited /\ transportStarted(Cur)
    /\ Len(heartbeatChecks) < MaxChecks
    /\ Commit(onmessage(Cur, method))

HeartbeatCheckFires(i) ==
    /\ ~exited /\ i \in 1..Len(heartbeatChecks)
    /\ heartbeatChecks[i] >= HEARTBEAT_INTERVAL_MS
    /\ Commit(heartbeatCheck(Cur, i))

CloseSettles(outcome) ==
    /\ ~exited /\ pcShutdown = "closing"
    /\ Commit(closeSettled(Cur, outcome))

GraceElapses ==
    /\ ~exited /\ pcShutdown = "grace"
    /\ graceOver(Cur)
    /\ Commit(graceElapses(Cur))

Tick ==
    /\ ~exited
    /\ Commit(tick(Cur))

Next ==
    \/ \E ok \in BOOLEAN : EnvCheck(ok)
    \/ \E ok \in BOOLEAN : VerifyApi(ok)
    \/ \E ok \in BOOLEAN : InitialConnect(ok)
    \/ Signal
    \/ Fault
    \/ \E code \in ErrorCodes : StdioError(code)
    \/ \E code \in ErrorCodes : TransportError(code)
    \/ ReconnectTimerFires
    \/ \E ok \in BOOLEAN : ReconnectSettles(ok)
    \/ \E method \in Methods : Message(method)
    \/ \E i \in 1..MaxChecks : HeartbeatCheckFires(i)
    \/ \E outcome \in {"ok"} \cup ErrorCodes : CloseSettles(outcome)
    \/ GraceElapses
    \/ Tick

Spec == Init /\ [][Next]_vars

\* Timers fire, pending calls settle, time passes.
Fairness ==
    /\ WF_vars(Tick)
    /\ WF_vars(ReconnectTimerFires)
    /\ WF_vars(\E ok \in BOOLEAN : ReconnectSettles(ok))
    /\ WF_vars(\E i \in 1..MaxChecks : HeartbeatCheckFires(i))
    /\ WF_vars(\E outcome \in {"ok"} \cup ErrorCodes : CloseSettles(outcome))
    /\ WF_vars(GraceElapses)

FairSpec == Spec /\ Fairness

\* Time passes, the close call settles, the grace timer fires.
FairnessShutdown ==
    /\ WF_vars(Tick)
    /\ WF_vars(\E outcome \in {"ok"} \cup ErrorCodes : CloseSettles(outcome))
    /\ WF_vars(GraceElapses)

FairSpecShutdown == Spec /\ FairnessShutdown

TypeOK ==
    /\ layout \in Layouts
    /\ pcStart \in {"env", "verify", "connect", "running"}
    /\ isConnected \in BOOLEAN /\ isPipeActive \in BOOLEAN /\ isShuttingDown \in BOOLEAN
    /\ reconnectAttempts \in 0..MAX_RECONNECT_ATTEMPTS
    /\ timeSinceLastHeartbeat \in 0..AgeCap
    /\ Len(reconnectTimers) <= MAX_RECONNECT_ATTEMPTS
    /\ connecting \in 0..MAX_RECONNECT_ATTEMPTS
    /\ Len(heartbeatChecks) <= MaxChecks
    /\ pcShutdown \in {"none", "closing", "grace", "done"}
    /\ exited \in BOOLEAN /\ exitCode \in {-1, 0, 1}

\* ==== withTimeout ========================================================
\* One call withTimeout(promise, timeoutMs, context).  The wrapped operation
\* settles when its owner settles it; the deadline timer fires no earlier
\* than timeoutMs after the call.  "Before the deadline" is: while the
\* deadline timer has not fired.

\* The second argument: << >> when it is left undefined, <<ms>> otherwise.
TimeoutArgs == {<< >>, <<50>>, <<1000>>}
Contexts == {"Fast operation", "Slow operation"}
OpValues == {"success", "too late"}

\* A message is the sequence of the pieces it is put together from.
includes(message, piece) == \E i \in 1..Len(message) : message[i] = piece

\* `Timeout after ${ms}ms: ${message}`, without the context label.
timeoutMessage_noContext(ms, message) ==
    <<"Timeout after ", ToString(ms), "ms: ">>

\* `Timeout after ${ms}ms: ${message}`
timeoutMessage(ms, message) ==
    <<"Timeout after ", ToString(ms), "ms: ", message>>

\* Errors the wrapped operation can reject with: an ordinary failure, and a
\* failure whose own text is that of a timeout (a guarded call further down).
OpErrors ==
    {[origin |-> "operation", message |-> <<"Network error">>],
     [origin |-> "operation", message |-> timeoutMessage(1000, "upstream")]}

\* timeoutMs: number = API_TIMEOUT_MS
effectiveTimeout(arg) == IF arg = << >> THEN API_TIMEOUT_MS ELSE arg[1]

\* The instants at which a deadline of the model falls.
Instants == {effectiveTimeout(a) : a \in TimeoutArgs}

nextInstant(e) ==
    IF \E d \in Instants : d > e
    THEN CHOOSE d \in Instants : d > e /\ \A d2 \in Instants : d2 > e => d <= d2
    ELSE e

\* new Error(`Timeout after ...`) made by the timer of createTimeout
timeoutError(ms, message) ==
    [kind |-> "error",
     error |-> [origin |-> "timer", message |-> timeoutMessage(ms, message)]]

\* A race in which a later settlement replaces an earlier one.
raceSettle_lastWins(race, result) == result

\* Promise.race: the first input to settle settles the race, once.
raceSettle(race, result) == IF race = NoOutcome THEN result ELSE race

\* A continuation that loses the result (no `return result`).
deliver_dropValue(r) ==
    IF r.kind = "value" THEN [kind |-> "value", value |-> "undefined"] ELSE r

\* A continuation that throws a new error in place of the caught one.
deliver_wrapError(r) ==
    IF r.kind = "error"
    THEN [kind |-> "error",
          error |-> [origin |-> "withTimeout", message |-> <<"Operation timed out">>]]
    ELSE r

\* The continuation of the await: return result / throw error.
deliver(r) == r

\* error?.message?.includes('Timeout after')
logsTimeout(r) == r.kind = "error" /\ includes(r.error.message, "Timeout after ")

\* One input of the race settles with `result`; withTimeout continues when
\* that settles the race.
settleInput(w, result) ==
    LET r == raceSettle(w.race, result)
    IN  IF r = w.race
        THEN w
        ELSE [w EXCEPT !.race = r,
                       !.outcome = deliver(r),
                       !.settles = @ + 1,
                       !.logged = logsTimeout(r),
                       !.phase = "settled"]

\* withTimeout up to its await: the timer of createTimeout is armed.
withTimeout(w, arg, context) ==
    [w EXCEPT !.phase = "racing", !.arg = arg, !.timeoutMs = effectiveTimeout(arg),
              !.context = context, !.timer = "armed", !.elapsed = 0]

operationSettles(w, result) ==
    settleInput([w EXCEPT !.opResult = result,
                          !.first = IF @ = "none" THEN "operation" ELSE @],
                result)

timerFires(w) ==
    settleInput([w EXCEPT !.timer = "fired",
                          !.first = IF @ = "none" THEN "timer" ELSE @],
                timeoutError(w.timeoutMs, w.context))

WtCall(arg, context) ==
    /\ wt.phase = "idle"
    /\ wt' = withTimeout(wt, arg, context)
    /\ UNCHANGED <<connVars, sc, pb, bu, sw, lk>>

WtOperationResolves(v) ==
    /\ wt.phase # "idle" /\ wt.opResult = NoOutcome
    /\ wt' = operationSettles(wt, [kind |-> "value", value |-> v])
    /\ UNCHANGED <<connVars, sc, pb, bu, sw, lk>>

WtOperationRejects(e) ==
    /\ wt.phase # "idle" /\ wt.opResult = NoOutcome
    /\ wt' = operationSettles(wt, [kind |-> "error", error |-> e])
    /\ UNCHANGED <<connVars, sc, pb, bu, sw, lk>>

WtTimerFires ==
    /\ wt.timer = "armed"
    /\ wt.elapsed >= wt.timeoutMs
    /\ wt' = timerFires(wt)
    /\ UNCHANGED <<connVars, sc, pb, bu, sw, lk>>

WtTick ==
    /\ wt.phase # "idle"
    /\ wt' = [wt EXCEPT !.elapsed = nextInstant(@)]
    /\ UNCHANGED <<connVars, sc, pb, bu, sw, lk>>

\* The session core at rest, for the specifications of the helpers.
ConnIdle == ConnInit /\ layout = "modular"

InitTimeout == ConnIdle /\ UtilIdle

NextTimeout ==
    \/ \E arg \in TimeoutArgs, context \in Contexts : WtCall(arg, context)
    \/ \E v \in OpValues : WtOperationResolves(v)
    \/ \E e \in OpErrors : WtOperationRejects(e)
    \/ WtTimerFires
    \/ WtTick

SpecTimeout == InitTimeout /\ [][NextTimeout]_vars


\* ==== SimpleCache ========================================================
Keys == {"team:1", "teams:all"}
Values == {"v1", "v2"}
\* The ttlMs argument of set: << >> when left undefined, <<ms>> otherwise.
TtlArgs == {<< >>, <<-1>>, <<0>>, <<1>>}
\* The clock moves by a millisecond or by a whole default TTL.
ClockJumps == {1, CACHE_TTL_MS}

\* ttlMs: number = 5 * 60 * 1000
ttlOf(arg) == IF arg = << >> THEN CACHE_TTL_MS ELSE arg[1]

Restrict(f, S) == [k \in S |-> f[k]]

lastOp(op, key) ==
    [op |-> op, key |-> key, value |-> Null, ttl |-> << >>,
     expired |-> FALSE, afterSet |-> FALSE, expiredCount |-> 0,
     replaced |-> Null]

\* The expiry test with >= for >.
isExpired_inclusive(now, entry) == now >= entry.expiresAt

\* Date.now() > entry.expiresAt
isExpired(now, entry) == now > entry.expiresAt

\* get that answers null for an expired entry and leaves it in the Map.
cacheGet_keepsExpired(c, key) ==
    IF key \notin DOMAIN c.cache
    THEN [c EXCEPT !.last = lastOp("get", key)]
    ELSE IF isExpired(c.now, c.cache[key])
    THEN [c EXCEPT !.last = [lastOp("get", key) EXCEPT !.expired = TRUE]]
    ELSE [c EXCEPT !.last = [lastOp("get", key) EXCEPT
                                 !.value = c.cache[key].value,
                                 !.afterSet = c.last.op = "set" /\ c.last.key = key]]

\* get that renews the entry it returns (a sliding expiry).
cacheGet_refreshesTtl(c, key) ==
    IF key \notin DOMAIN c.cache
    THEN [c EXCEPT !.last = lastOp("get", key)]
    ELSE IF isExpired(c.now, c.cache[key])
    THEN [c EXCEPT !.cache = Restrict(@, DOMAIN @ \ {key}),
                   !.last = [lastOp("get", key) EXCEPT !.expired = TRUE]]
    ELSE [c EXCEPT !.cache[key].expiresAt = c.now + CACHE_TTL_MS,
                   !.last = [lastOp("get", key) EXCEPT
                                 !.value = c.cache[key].value,
                                 !.afterSet = c.last.op = "set" /\ c.last.key = key]]

\* get(key)
cacheGet(c, key) ==
    IF key \notin DOMAIN c.cache
    THEN [c EXCEPT !.last = lastOp("get", key)]
    ELSE IF isExpired(c.now, c.cache[key])
    THEN [c EXCEPT !.cache = Restrict(@, DOMAIN @ \ {key}),
                   !.last = [lastOp("get", key) EXCEPT !.expired = TRUE]]
    ELSE [c EXCEPT !.last = [lastOp("get", key) EXCEPT
                                 !.value = c.cache[key].value,
                                 !.afterSet = c.last.op = "set" /\ c.last.key = key]]

\* An entry that expires at the moment it is stored.
newEntry_expiresNow(now, value, ttlMs) ==
    [value |-> value, timestamp |-> now, expiresAt |-> now]

\* { value, timestamp: now, expiresAt: now + ttlMs }
newEntry(now, value, ttlMs) ==
    [value |-> value, timestamp |-> now, expiresAt |-> now + ttlMs]

\* What a set of key replaces in the Map.
replacedBy(c, key) == IF key \in DOMAIN c.cache THEN c.cache[key].value ELSE Null

\* A set that leaves an existing entry as it is.
cacheSet_keepsExisting(c, key, value, arg) ==
    [c EXCEPT !.cache = [k \in DOMAIN @ \cup {key} |->
                            IF k = key /\ key \notin DOMAIN c.cache
                            THEN newEntry(c.now, value, ttlOf(arg))
                            ELSE @[k]],
              !.last = [lastOp("set", key) EXCEPT !.value = value, !.ttl = arg,
                                                  !.replaced = replacedBy(c, key)]]

\* set(key, value, ttlMs)
cacheSet(c, key, value, arg) ==
    [c EXCEPT !.cache = [k \in DOMAIN @ \cup {key} |->
                            IF k = key THEN newEntry(c.now, value, ttlOf(arg))
                            ELSE @[k]],
              !.last = [lastOp("set", key) EXCEPT !.value = value, !.ttl = arg,
                                                  !.replaced = replacedBy(c, key)]]

\* delete(key)
cacheDelete(c, key) ==
    [c EXCEPT !.cache = Restrict(@, DOMAIN @ \ {key}),
              !.last = lastOp("delete", key)]

\* clear()
cacheClear(c) ==
    [c EXCEPT !.cache = EmptyMap, !.last = lastOp("clear", "")]

\* The keys a cleanup at time `now` deletes, with >= for >.
expiredKeys_inclusive(cache, now) ==
    {k \in DOMAIN cache : now >= cache[k].expiresAt}

\* The keys a cleanup at time `now` deletes.
expiredKeys(cache, now) ==
    {k \in DOMAIN cache : isExpired(now, cache[k])}

\* A sweep that also takes the entries expiring at this very millisecond.
cleanup_inclusive(c) ==
    LET gone == {k \in DOMAIN c.cache : c.now >= c.cache[k].expiresAt}
    IN  [c EXCEPT !.cache = Restrict(@, DOMAIN @ \ gone),
                  !.last = [lastOp("cleanup", "") EXCEPT
                                !.expiredCount = Cardinality(gone)]]

\* cleanup()
cleanup(c) ==
    LET gone == expiredKeys(c.cache, c.now)
    IN  [c EXCEPT !.cache = Restrict(@, DOMAIN @ \ gone),
                  !.last = [lastOp("cleanup", "") EXCEPT
                                !.expiredCount = Cardinality(gone)]]

ScSet(key, value, arg) ==
    /\ sc' = cacheSet(sc, key, value, arg)
    /\ UNCHANGED <<connVars, wt, pb, bu, sw, lk>>

ScGet(key) ==
    /\ sc' = cacheGet(sc, key)
    /\ UNCHANGED <<connVars, wt, pb, bu, sw, lk>>

ScDelete(key) ==
    /\ sc' = cacheDelete(sc, key)
    /\ UNCHANGED <<connVars, wt, pb, bu, sw, lk>>

ScClear ==
    /\ sc' = cacheClear(sc)
    /\ UNCHANGED <<connVars, wt, pb, bu, sw, lk>>

\* The cleanup interval fires, or cleanup() is called.
ScCleanup ==
    /\ sc' = cleanup(sc)
    /\ UNCHANGED <<connVars, wt, pb, bu, sw, lk>>

ScTick(d) ==
    /\ sc.advances < MaxAdvances
    /\ sc' = [sc EXCEPT !.now = @ + d, !.advances = @ + 1,
                        !.last = lastOp("tick", "")]
    /\ UNCHANGED <<connVars, wt, pb, bu, sw, lk>>

NextCache ==
    \/ \E key \in Keys, value \in Values, arg \in TtlArgs : ScSet(key, value, arg)
    \/ \E key \in Keys : ScGet(key)
    \/ \E key \in Keys : ScDelete(key)
    \/ ScClear
    \/ ScCleanup
    \/ \E d \in ClockJumps : ScTick(d)

InitCache == ConnIdle /\ UtilIdle

SpecCache == InitCache /\ [][NextCache]_vars


\* ==== SimpleCache with and without its sweep =============================
\* The same operations at the same times on two caches; only sc is swept.
SwSet(key, value, arg) ==
    /\ sc' = cacheSet(sc, key, value, arg)
    /\ sw' = cacheSet(sw, key, value, arg)
    /\ UNCHANGED <<connVars, wt, pb, bu, lk>>

SwGet(key) ==
    /\ sc' = cacheGet(sc, key)
    /\ sw' = cacheGet(sw, key)
    /\ UNCHANGED <<connVars, wt, pb, bu, lk>>

SwDelete(key) ==
    /\ sc' = cacheDelete(sc, key)
    /\ sw' = cacheDelete(sw, key)
    /\ UNCHANGED <<connVars, wt, pb, bu, lk>>

SwClear ==
    /\ sc' = cacheClear(sc)
    /\ sw' = cacheClear(sw)
    /\ UNCHANGED <<connVars, wt, pb, bu, lk>>

SwTick(d) ==
    /\ sc.advances < MaxSweepAdvances
    /\ sc' = [sc EXCEPT !.now = @ + d, !.advances = @ + 1,
                        !.last = lastOp("tick", "")]
    /\ sw' = [sw EXCEPT !.now = @ + d, !.advances = @ + 1,
                        !.last = lastOp("tick", "")]
    /\ UNCHANGED <<connVars, wt, pb, bu, lk>>

\* The cleanup interval of sc fires.
SwCleanup ==
    /\ sc' = cleanup(sc)
    /\ UNCHANGED <<connVars, wt, pb, bu, sw, lk>>

NextSweep ==
    \/ \E key \in Keys, value \in Values, arg \in TtlArgs : SwSet(key, value, arg)
    \/ \E key \in Keys : SwGet(key)
    \/ \E key \in Keys : SwDelete(key)
    \/ SwClear
    \/ \E d \in ClockJumps : SwTick(d)
    \/ SwCleanup

InitSweep == ConnIdle /\ UtilIdle

SpecSweep == InitSweep /\ [][NextSweep]_vars


\* ==== Cache-backed lookups ================================================
Lookups == {"getTeamById", "getTeamByKey", "getAllTeams", "getWorkflowStatesForTeam"}

\* The arguments the lookups are called with.
TeamId == "1"
TeamKey == "ENG"

Teams == <<[id |-> "1", key |-> "ENG"], [id |-> "2", key |-> "OPS"]>>
States == <<[id |-> "s1", name |-> "Done"], [id |-> "s2", name |-> "Todo"]>>

Prefixes(seq) == {SubSeq(seq, 1, n) : n \in 0..Len(seq)}

\* What the upstream call of a lookup can resolve with: the nodes of the
\* answer (for team(id): the team, or nothing).
UpstreamNodes(fn) ==
    CASE fn = "getTeamById" -> {<< >>, <<Teams[1]>>}
      [] fn = "getTeamByKey" -> {<< >>, <<Teams[1]>>}
      [] fn = "getAllTeams" -> Prefixes(Teams)
      [] fn = "getWorkflowStatesForTeam" -> Prefixes(States)

\* const cacheKey = ...
cacheKey(fn) ==
    CASE fn = "getTeamById" -> "team:" \o TeamId
      [] fn = "getTeamByKey" -> "team:key:" \o TeamKey
      [] fn = "getAllTeams" -> "teams:all"
      [] fn = "getWorkflowStatesForTeam" -> "workflowStates:team:" \o TeamId

\* The third argument of withTimeout.
lookupContext(fn) ==
    CASE fn = "getTeamById" -> "Fetching team " \o TeamId
      [] fn = "getTeamByKey" -> "Fetching team by key " \o TeamKey
      [] fn = "getAllTeams" -> "Fetching all teams"
      [] fn = "getWorkflowStatesForTeam" ->
             "Fetching workflow states for team " \o TeamId

\* if (team) / if (teams.nodes.length > 0); the list lookups take any answer.
found(fn, nodes) ==
    IF fn \in {"getTeamById", "getTeamByKey"} THEN nodes # << >> ELSE TRUE

\* nodes.forEach(node => { cache.set(...) }), as <<key, value>> pairs.
RECURSIVE forEachWrites(_, _)
forEachWrites(fn, nodes) ==
    IF nodes = << >> THEN << >>
    ELSE LET node == Head(nodes)
         IN  (IF fn = "getAllTeams"
              THEN <<<<"team:" \o node.id, node>>, <<"team:key:" \o node.key, node>>>>
              ELSE <<<<"workflowState:team:" \o TeamId \o ":name:" \o node.name, node>>>>)
             \o forEachWrites(fn, Tail(nodes))

\* The cache.set calls of a lookup whose answer was found, in order.
cacheWrites(fn, nodes) ==
    CASE fn = "getTeamById" -> <<<<cacheKey(fn), nodes[1]>>>>
      [] fn = "getTeamByKey" ->
             <<<<cacheKey(fn), nodes[1]>>, <<"team:" \o nodes[1].id, nodes[1]>>>>
      [] OTHER -> <<<<cacheKey(fn), nodes>>>> \o forEachWrites(fn, nodes)

RECURSIVE applyWrites(_, _)
applyWrites(c, writes) ==
    IF writes = << >> THEN c
    ELSE applyWrites(cacheSet(c, Head(writes)[1], Head(writes)[2], << >>),
                     Tail(writes))

\* A lookup's state: the lookup record, the withTimeout call, the cache.
LkCur == [lk |-> lk, wt |-> wt, sc |-> sc]

\* The lookup up to its await: cache.get, and on a miss the guarded call.
lookup(s, fn) ==
    LET c == cacheGet(s.sc, cacheKey(fn))
    IN  IF cacheKey(fn) \in DOMAIN c.cache
        THEN [s EXCEPT !.sc = c,
                       !.lk = [pc |-> "returned", fn |-> fn, wrote |-> FALSE]]
        ELSE [s EXCEPT !.sc = c,
                       !.lk = [pc |-> "awaiting", fn |-> fn, wrote |-> FALSE],
                       !.wt = withTimeout(WtIdle, <<API_TIMEOUT_MS>>,
                                          lookupContext(fn))]

\* The lookup after its await: the writes and the return, or the catch.
afterAwait(s, outcome) ==
    IF outcome.kind = "value" /\ found(s.lk.fn, outcome.value)
    THEN [s EXCEPT !.sc = applyWrites(@, cacheWrites(s.lk.fn, outcome.value)),
                   !.lk.pc = "returned", !.lk.wrote = TRUE]
    ELSE [s EXCEPT !.lk.pc = "threw"]

\* A lookup whose writes hang on the upstream promise and not on the race.
upstreamSettles_writesLate(s, result) ==
    afterAwait([s EXCEPT !.wt = operationSettles(s.wt, result)], result)

\* The upstream call settles: the lookup continues when that settles the race.
upstreamSettles(s, result) ==
    LET w == operationSettles(s.wt, result)
    IN  IF w.settles > s.wt.settles
        THEN afterAwait([s EXCEPT !.wt = w], w.outcome)
        ELSE [s EXCEPT !.wt = w]

\* The timer of the guarded call fires.
lookupTimerFires(s) ==
    LET w == timerFires(s.wt)
    IN  IF w.settles > s.wt.settles
        THEN afterAwait([s EXCEPT !.wt = w], w.outcome)
        ELSE [s EXCEPT !.wt = w]

LkCommit(s) ==
    /\ lk' = s.lk
    /\ wt' = s.wt
    /\ sc' = s.sc
    /\ UNCHANGED <<connVars, pb, bu, sw>>

\* A lookup is called once the one before it has come back and its upstream
\* call has settled.
LkCall(fn) ==
    /\ lk.pc # "awaiting"
    /\ wt.phase = "idle" \/ wt.opResult # NoOutcome
    /\ LkCommit(lookup(LkCur, fn))

LkUpstreamResolves(nodes) ==
    /\ wt.phase # "idle" /\ wt.opResult = NoOutcome
    /\ nodes \in UpstreamNodes(lk.fn)
    /\ LkCommit(upstreamSettles(LkCur, [kind |-> "value", value |-> nodes]))

LkUpstreamRejects(e) ==
    /\ wt.phase # "idle" /\ wt.opResult = NoOutcome
    /\ LkCommit(upstreamSettles(LkCur, [kind |-> "error", error |-> e]))

LkTimerFires ==
    /\ wt.timer = "armed"
    /\ wt.elapsed >= wt.timeoutMs
    /\ LkCommit(lookupTimerFires(LkCur))

LkTick ==
    /\ wt.phase # "idle"
    /\ wt.elapsed < wt.timeoutMs
    /\ wt' = [wt EXCEPT !.elapsed = nextInstant(@)]
    /\ UNCHANGED <<connVars, sc, pb, bu, sw, lk>>

\* The clock of the cache moves by a millisecond or past a whole default TTL.
LookupJumps == {1, CACHE_TTL_MS + 1}

LkCacheTick(d) ==
    /\ sc.advances < MaxLookupAdvances
    /\ sc' = [sc EXCEPT !.now = @ + d, !.advances = @ + 1,
                        !.last = lastOp("tick", "")]
    /\ UNCHANGED <<connVars, wt, pb, bu, sw, lk>>

NextLookup ==
    \/ \E fn \in Lookups : LkCall(fn)
    \/ \E nodes \in Prefixes(Teams) \cup Prefixes(States) : LkUpstreamResolves(nodes)
    \/ \E e \in OpErrors : LkUpstreamRejects(e)
    \/ LkTimerFires
    \/ LkTick
    \/ \E d \in LookupJumps : LkCacheTick(d)

InitLookup == ConnIdle /\ UtilIdle

SpecLookup == InitLookup /\ [][NextLookup]_vars


\* ==== processBatch =======================================================
ItemIds == {"ISS-1", "ISS-2", "ISS-3"}
ItemLists == UNION {[1..n -> ItemIds] : n \in 0..MaxItems}
BatchSizes == 1..MaxBatchSize

\* What processFn(item) resolves to, and what it rejects with.
resultOf(item) == <<"updated", item>>
errorOf(item) == <<"failed", item>>

\* items.slice(i, i + batchSize), as the positions it covers (from 1).
batchPositions(b) ==
    {p \in 1..Len(b.items) : b.i < p /\ p <= b.i + b.batchSize}

\* Every remaining item started at once, not only the batch's.
startBatch_allRemaining(b) ==
    [b EXCEPT !.slots = [j \in 1..Cardinality(batchPositions(b)) |-> Pending],
              !.pending = @ \cup {p \in 1..Len(b.items) : b.i < p}]

\* batch.map(async item => processFn(item)) handed to Promise.all.
startBatch(b) ==
    [b EXCEPT !.slots = [j \in 1..Cardinality(batchPositions(b)) |-> Pending],
              !.pending = @ \cup batchPositions(b)]

\* A loop that reports progress once more when it ends.
loop_reportsAtEnd(b) ==
    IF b.i < Len(b.items)
    THEN startBatch(b)
    ELSE [b EXCEPT !.status = "returned", !.slots = << >>,
                   !.progress = Append(@, <<Len(b.items), Len(b.items)>>)]

\* The loop head: another batch, or return results.
loop(b) ==
    IF b.i < Len(b.items)
    THEN startBatch(b)
    ELSE [b EXCEPT !.status = "returned", !.slots = << >>]

\* Results kept in the order in which the items completed.
collect_completionOrder(slots, j, value) ==
    LET free == CHOOSE f \in 1..Len(slots) :
                    slots[f] = Pending /\ \A g \in 1..(f - 1) : slots[g] # Pending
    IN  [slots EXCEPT ![free] = value]

\* Promise.all puts each value at the index of its promise.
collect(slots, j, value) == [slots EXCEPT ![j] = value]

\* The count reported without the cap at items.length.
completedCount_noMin(b) == b.i + b.batchSize

\* Math.min(i + batchSize, items.length)
completedCount(b) ==
    IF b.i + b.batchSize < Len(b.items) THEN b.i + b.batchSize ELSE Len(b.items)

\* The batch's results assigned to results instead of pushed onto it.
batchDone_overwrites(b) ==
    loop([b EXCEPT !.results = b.slots,
                   !.progress = Append(@, <<completedCount(b), Len(b.items)>>),
                   !.i = @ + b.batchSize])

\* After the await of Promise.all: push, report, advance, loop.
batchDone(b) ==
    loop([b EXCEPT !.results = @ \o b.slots,
                   !.progress = Append(@, <<completedCount(b), Len(b.items)>>),
                   !.i = @ + b.batchSize])

\* processBatch(items, batchSize, processFn, onProgress) up to its first await.
processBatch(b, items, batchSize) ==
    loop([b EXCEPT !.status = "running", !.items = items,
                   !.batchSize = batchSize, !.i = 0])

\* processFn of the item at position p resolved.
itemResolves(b, p) ==
    LET b1 == [b EXCEPT !.pending = @ \ {p}, !.order = Append(@, p)]
    IN  IF b.status # "running"
        THEN b1
        ELSE LET b2 == [b1 EXCEPT !.slots = collect(@, p - b.i, resultOf(b.items[p]))]
             IN  IF \A j \in 1..Len(b2.slots) : b2.slots[j] # Pending
                 THEN batchDone(b2)
                 ELSE b2

\* A rejection taken for a result: the batch goes on.
itemRejects_swallowed(b, p) == itemResolves(b, p)

\* processFn of the item at position p rejected: Promise.all rejects with
\* it and processBatch throws; the rest of the batch stays in flight.
itemRejects(b, p) ==
    LET b1 == [b EXCEPT !.pending = @ \ {p}, !.order = Append(@, p)]
    IN  IF b.status # "running"
        THEN b1
        ELSE [b1 EXCEPT !.status = "failed", !.error = errorOf(b.items[p])]

PbCall(items, batchSize) ==
    /\ pb.status = "idle"
    /\ pb' = processBatch(pb, items, batchSize)
    /\ UNCHANGED <<connVars, wt, sc, bu, sw, lk>>

PbItemResolves(p) ==
    /\ p \in pb.pending
    /\ pb' = itemResolves(pb, p)
    /\ UNCHANGED <<connVars, wt, sc, bu, sw, lk>>

PbItemRejects(p) ==
    /\ p \in pb.pending
    /\ pb' = itemRejects(pb, p)
    /\ UNCHANGED <<connVars, wt, sc, bu, sw, lk>>

NextBatch ==
    \/ \E items \in ItemLists, batchSize \in BatchSizes : PbCall(items, batchSize)
    \/ \E p \in 1..MaxItems : PbItemResolves(p)
    \/ \E p \in 1..MaxItems : PbItemRejects(p)

InitBatch == ConnIdle /\ UtilIdle

SpecBatch == InitBatch /\ [][NextBatch]_vars

\* Every per-item operation that was started settles.
FairnessBatch ==
    \A p \in 1..MaxItems : WF_vars(PbItemResolves(p) \/ PbItemRejects(p))

FairSpecBatch == SpecBatch /\ FairnessBatch


\* ==== linear_bulk_update_status ==========================================
\* The batch size the tool passes to processBatch.
BULK_BATCH_SIZE == 5

\* Issue ids are strings, kept as sequences of characters so that the
\* format test reads them.
UpperCase == {"A", "B", "C", "D", "E", "F", "G", "H", "I", "J", "K", "L", "M",
              "N", "O", "P", "Q", "R", "S", "T", "U", "V", "W", "X", "Y", "Z"}
Digits == {"0", "1", "2", "3", "4", "5", "6", "7", "8", "9"}
IssueIds == {<<"E", "N", "G", "-", "1">>, <<"E", "N", "G", "-", "2">>,
             <<"e", "n", "g", "-", "3">>, <<"E", "N", "G", "4">>}
IssueLists == UNION {[1..n -> IssueIds] : n \in 0..MaxIssues}

UpstreamCalls == {"teams", "issues", "workflowStates", "updateIssue"}
NoCalls == [k \in UpstreamCalls |-> 0]

\* How an upstream call made under withTimeout can end for its caller.
TeamsOutcomes == {"found", "empty", "rejected", "timeout"}
IssuesOutcomes == {"found", "empty", "rejected", "timeout"}
StatesOutcomes == {"withName", "withoutName", "rejected", "timeout"}
UpdateOutcomes == {"resolved", "rejected", "timeout"}
StatesCache == {"none", "withName", "withoutName"}

\* issueId.match(/^([A-Z]+)-(\d+)$/)
matchesFormat(issueId) ==
    \E k \in 2..(Len(issueId) - 1) :
        /\ issueId[k] = "-"
        /\ \A j \in 1..(k - 1) : issueId[j] \in UpperCase
        /\ \A j \in (k + 1)..Len(issueId) : issueId[j] \in Digits

\* results.failed.push({id: issueId, reason}); return
recordFailed(s, p, reason) ==
    [s EXCEPT !.bu.failed = Append(@, <<s.bu.issueIds[p], reason>>),
              !.bu.pc[p] = "done"]

\* results.successful.push(issueId)
recordSuccessful(s, p) ==
    [s EXCEPT !.bu.successful = Append(@, s.bu.issueIds[p]),
              !.bu.pc[p] = "done"]

\* getLinearClient().<kind>(...) handed to withTimeout; the item waits.
issueCall(s, p, kind) ==
    [s EXCEPT !.bu.calls[p][kind] = @ + 1, !.bu.pc[p] = kind]

RECURSIVE processIssue(_, _), itemSettled(_, _), startItems(_, _)

\* The per-item operation returned: its promise resolves inside
\* processBatch, which may finish the batch, start the next one (whose
\* items run to their first await) or return to the tool.
itemSettled(s, p) ==
    LET pb1 == itemResolves(s.pb, p)
        s1 == [s EXCEPT !.pb = pb1]
    IN  IF pb1.status = "returned"
        THEN [s1 EXCEPT !.bu.status = "returned"]
        ELSE startItems(s1, pb1.pending \ s.pb.pending)

\* batch.map(...): the operations of a batch start in input order.
startItems(s, ps) ==
    IF ps = {}
    THEN s
    ELSE LET p == CHOOSE q \in ps : \A r \in ps : q <= r
         IN  startItems(processIssue(s, p), ps \ {p})

\* The team is known: look the issue up.
findIssue(s, p) == issueCall(s, p, "issues")

\* async (issueId) => {...} up to its first await: the format test, then
\* getTeamByKey, which reads the cache before it asks upstream.
processIssue(s, p) ==
    IF ~matchesFormat(s.bu.issueIds[p])
    THEN itemSettled(recordFailed(s, p, "Invalid format"), p)
    ELSE IF s.bu.teamCached
         THEN findIssue(s, p)
         ELSE issueCall(s, p, "teams")

\* getTeamByKey's upstream call ended.
teamsSettles(s, p, outcome) ==
    IF outcome = "found"
    THEN findIssue([s EXCEPT !.bu.teamCached = TRUE], p)
    ELSE itemSettled(recordFailed(s, p, "Team not found"), p)

\* getWorkflowStateByName up to its first await: the cached state, the
\* cached list without the state, or the upstream call.
findState(s, p) ==
    CASE s.bu.statesCached = "withName" -> issueCall(s, p, "updateIssue")
      [] s.bu.statesCached = "withoutName" ->
            itemSettled(recordFailed(s, p, "Status not found"), p)
      [] OTHER -> issueCall(s, p, "workflowStates")

\* An issue that is not found leaves without an entry in either list.
issuesSettles_dropsNotFound(s, p, outcome) ==
    CASE outcome = "found" -> findState(s, p)
      [] outcome = "empty" -> itemSettled([s EXCEPT !.bu.pc[p] = "done"], p)
      [] OTHER -> itemSettled(recordFailed(s, p, "API error"), p)

\* withTimeout(issues(...)) ended.
issuesSettles(s, p, outcome) ==
    CASE outcome = "found" -> findState(s, p)
      [] outcome = "empty" -> itemSettled(recordFailed(s, p, "Issue not found"), p)
      [] OTHER -> itemSettled(recordFailed(s, p, "API error"), p)

\* getWorkflowStatesForTeam's upstream call ended.
statesSettles(s, p, outcome) ==
    CASE outcome = "withName" ->
            issueCall([s EXCEPT !.bu.statesCached = "withName"], p, "updateIssue")
      [] outcome = "withoutName" ->
            itemSettled(recordFailed([s EXCEPT !.bu.statesCached = "withoutName"],
                                     p, "Status not found"), p)
      [] OTHER -> itemSettled(recordFailed(s, p, "Status not found"), p)

\* A timed-out update issued once more.
updateSettles_retries(s, p, outcome) ==
    CASE outcome = "resolved" -> itemSettled(recordSuccessful(s, p), p)
      [] outcome = "timeout" -> issueCall(s, p, "updateIssue")
      [] OTHER -> itemSettled(recordFailed(s, p, "API error"), p)

\* withTimeout(updateIssue(...)) ended.
updateSettles(s, p, outcome) ==
    IF outcome = "resolved"
    THEN itemSettled(recordSuccessful(s, p), p)
    ELSE itemSettled(recordFailed(s, p, "API error"), p)

\* The tool handler up to its first await.
bulkUpdateStatus(s, issueIds, teamCached, statesCached) ==
    LET b0 == [BuIdle EXCEPT !.status = "running", !.issueIds = issueIds,
                             !.pc = [p \in 1..Len(issueIds) |-> "new"],
                             !.calls = [p \in 1..Len(issueIds) |-> NoCalls],
                             !.teamCached = teamCached,
                             !.statesCached = statesCached]
        pb1 == processBatch(s.pb, issueIds, BULK_BATCH_SIZE)
    IN  IF pb1.status = "returned"
        THEN [bu |-> [b0 EXCEPT !.status = "returned"], pb |-> pb1]
        ELSE startItems([bu |-> b0, pb |-> pb1], pb1.pending)

\* A cached team or list of states outlives its TTL.
cacheExpires(s, which) ==
    IF which = "team"
    THEN [s EXCEPT !.bu.teamCached = FALSE]
    ELSE [s EXCEPT !.bu.statesCached = "none"]

BuCur == [bu |-> bu, pb |-> pb]

BuCommit(s) ==
    /\ bu' = s.bu
    /\ pb' = s.pb
    /\ UNCHANGED <<connVars, wt, sc, sw, lk>>

BuCall(issueIds, teamCached, statesCached) ==
    /\ bu.status = "idle"
    /\ BuCommit(bulkUpdateStatus(BuCur, issueIds, teamCached, statesCached))

BuWaits(p, kind) ==
    /\ bu.status = "running"
    /\ p \in DOMAIN bu.pc
    /\ bu.pc[p] = kind

BuTeamsSettles(p, outcome) ==
    /\ BuWaits(p, "teams")
    /\ BuCommit(teamsSettles(BuCur, p, outcome))

BuIssuesSettles(p, outcome) ==
    /\ BuWaits(p, "issues")
    /\ BuCommit(issuesSettles(BuCur, p, outcome))

BuStatesSettles(p, outcome) ==
    /\ BuWaits(p, "workflowStates")
    /\ BuCommit(statesSettles(BuCur, p, outcome))

BuUpdateSettles(p, outcome) ==
    /\ BuWaits(p, "updateIssue")
    /\ BuCommit(updateSettles(BuCur, p, outcome))

BuCacheExpires(which) ==
    /\ bu.status = "running"
    /\ IF which = "team" THEN bu.teamCached ELSE bu.statesCached # "none"
    /\ BuCommit(cacheExpires(BuCur, which))

NextBulk ==
    \/ \E ids \in IssueLists, tc \in BOOLEAN, stc \in StatesCache : BuCall(ids, tc, stc)
    \/ \E p \in 1..MaxIssues, o \in TeamsOutcomes : BuTeamsSettles(p, o)
    \/ \E p \in 1..MaxIssues, o \in IssuesOutcomes : BuIssuesSettles(p, o)
    \/ \E p \in 1..MaxIssues, o \in StatesOutcomes : BuStatesSettles(p, o)
    \/ \E p \in 1..MaxIssues, o \in UpdateOutcomes : BuUpdateSettles(p, o)
    \/ \E which \in {"team", "states"} : BuCacheExpires(which)

InitBulk == ConnIdle /\ UtilIdle

SpecBulk == InitBulk /\ [][NextBulk]_vars

\* ==== Claims ============================================================

\* What a shutdown trigger may not touch once a teardown is under way.
teardownVars == <<isShuttingDown, pcShutdown, graceElapsed, exited, exitCode,
                  obs.teardowns, obs.closeCalls, obs.closeSettled,
                  obs.graceWaits, obs.exits>>

C1_Counts ==
    /\ obs.teardowns <= 1
    /\ obs.closeCalls <= 1
    /\ obs.graceWaits <= 1
    /\ obs.exits <= 1
    /\ isShuttingDown <=> obs.teardowns = 1
    /\ obs.closeCalls = 1 => layout = "monolith"
    /\ pcShutdown = "done" => obs.teardowns = 1 /\ obs.graceWaits = 1 /\ obs.exits = 1

C1_LaterTrigger ==
    \/ Signal
    \/ Fault
    \/ \E code \in ErrorCodes : StdioError(code)
    \/ \E code \in ErrorCodes : TransportError(code)

C2_AttemptsBounded ==
    ~isShuttingDown => reconnectAttempts <= MAX_RECONNECT_ATTEMPTS

C2_Witness ==
    /\ ~isShuttingDown
    /\ reconnectAttempts = MAX_RECONNECT_ATTEMPTS
    /\ obs.liveErrors = MAX_RECONNECT_ATTEMPTS

\* C3: once MAX_RECONNECT_ATTEMPTS + 1 non-pipe errors have reached the
\* error handler of a session that was not shutting down, exactly
\* MAX_RECONNECT_ATTEMPTS reconnections have been scheduled and shutdown has
\* begun; the number of scheduled reconnections, and of connect calls made
\* for them, never exceeds the bound.
C3_ReconnectionBound ==
    /\ obs.scheduled <= MAX_RECONNECT_ATTEMPTS
    /\ obs.connectCalls <= obs.scheduled
    /\ obs.scheduled = reconnectAttempts
    /\ obs.liveErrors <= MAX_RECONNECT_ATTEMPTS + 1
    /\ obs.liveErrors = MAX_RECONNECT_ATTEMPTS + 1 =>
           /\ obs.scheduled = MAX_RECONNECT_ATTEMPTS
           /\ isShuttingDown

C3_Witness ==
    /\ isConnected
    /\ obs.liveErrors = MAX_RECONNECT_ATTEMPTS + 1
    /\ obs.scheduled = MAX_RECONNECT_ATTEMPTS
    /\ Len(reconnectTimers) = MAX_RECONNECT_ATTEMPTS
    /\ isShuttingDown
    /\ ~obs.heartbeatTimedOut

\* C4: a transport error with code EPIPE sets isPipeActive to false and
\* leaves the session shutting down, without incrementing reconnectAttempts
\* and without scheduling a reconnection.
C4_PipeErrorBypassesRetry ==
    [][TransportError("EPIPE") =>
          /\ ~isPipeActive'
          /\ isShuttingDown'
          /\ reconnectAttempts' = reconnectAttempts
          /\ reconnectTimers' = reconnectTimers
          /\ connecting' = connecting
          /\ obs'.scheduled = obs.scheduled
          /\ obs'.connectCalls = obs.connectCalls]_vars

\* In the monolith a teardown without a close call is one that began with
\* the pipe already marked broken, that is, one begun by a pipe error.
C4_Witness ==
    /\ layout = "monolith"
    /\ ~isPipeActive
    /\ isShuttingDown
    /\ obs.closeCalls = 0
    /\ reconnectAttempts = 2
    /\ Len(reconnectTimers) = 2

\* C5: every non-pipe error received while not shutting down is eventually
\* followed by a successful reconnection or by the start of shutdown.
C5_ErrorLeadsToRecoveryOrShutdown ==
    (obs.lost /\ ~isShuttingDown) ~> (~obs.lost \/ isShuttingDown)

C7_AttemptsResetOnConnect ==
    [][(\/ Message("initialize")
        \/ Message("initialized")
        \/ ReconnectSettles(TRUE)) => reconnectAttempts' = 0]_vars

errorView(s) ==
    <<s.isConnected, s.reconnectAttempts, s.isPipeActive, s.isShuttingDown,
      s.reconnectTimers, s.connecting, s.pcShutdown, s.graceElapsed,
      s.obs.scheduled, s.obs.liveErrors, s.obs.teardowns, s.obs.closeCalls>>

\* C9: a heartbeat check synthesizes a timeout error (and clears its
\* interval) exactly when the time since the last heartbeat is strictly more
\* than twice the heartbeat interval, and then changes the state as one
\* injected non-pipe transport error would in the same state; otherwise it
\* changes nothing.
C9_HeartbeatLikeTransportError ==
    [][\A i \in 1..MaxChecks :
          HeartbeatCheckFires(i) =>
              IF timeSinceLastHeartbeat > 2 * HEARTBEAT_INTERVAL_MS
              THEN /\ Len(heartbeatChecks') = Len(heartbeatChecks) - 1
                   /\ obs'.heartbeatTimedOut
                   /\ errorView(Cur') = errorView(onerror(Cur, "ECONNRESET"))
              ELSE /\ Len(heartbeatChecks') = Len(heartbeatChecks)
                   /\ obs'.heartbeatTimedOut = obs.heartbeatTimedOut
                   /\ errorView(Cur') = errorView(Cur)]_vars

\* A heartbeat timeout that scheduled the first reconnection.
C9_Witness ==
    /\ obs.heartbeatTimedOut
    /\ obs.liveErrors = 1
    /\ reconnectAttempts = 1
    /\ Len(reconnectTimers) = 1
    /\ ~isShuttingDown

\* C10: the shutdown path exits with status 0; status 1 is used only by a
\* start-up failure, before the session is connected.
C10_ExitStatus ==
    /\ exited => exitCode \in {0, 1}
    /\ ~exited => exitCode = -1
    /\ pcShutdown = "done" => exited /\ exitCode = 0
    /\ exitCode = 1 =>
           /\ pcStart # "running"
           /\ ~isConnected
           /\ pcShutdown # "done"

\* An exit after the reconnection attempts were exhausted and the pipe broke.
C10_Witness ==
    /\ pcShutdown = "done"
    /\ exitCode = 0
    /\ ~isPipeActive
    /\ obs.liveErrors = MAX_RECONNECT_ATTEMPTS + 1

C12_ResolvedFirstReturnsValue ==
    (wt.first = "operation" /\ wt.opResult.kind = "value") =>
        /\ wt.outcome = wt.opResult
        /\ ~wt.logged

\* The value stays the outcome after the deadline timer, armed with the
\* default deadline, has fired as well.
C12_Witness ==
    /\ wt.first = "operation"
    /\ wt.outcome = [kind |-> "value", value |-> "success"]
    /\ wt.arg = << >>
    /\ wt.timer = "fired"

\* The deadline the caller configured.
C13_Configured == IF wt.arg = << >> THEN API_TIMEOUT_MS ELSE wt.arg[1]

\* C13: when the deadline timer fires while the operation has not settled,
\* withTimeout fails with the error "Timeout after <ms>ms: <context>" made
\* of the configured deadline and the context label, no earlier than the
\* deadline, and returns no value.
C13_TimeoutErrorCarriesDeadlineAndContext ==
    wt.first = "timer" =>
        /\ wt.outcome.kind = "error"
        /\ wt.outcome.error.origin = "timer"
        /\ wt.outcome.error.message =
               <<"Timeout after ", ToString(C13_Configured), "ms: ", wt.context>>
        /\ wt.elapsed >= C13_Configured
        /\ wt.logged

C13_Witness ==
    /\ wt.first = "timer"
    /\ wt.arg = <<50>>
    /\ wt.context = "Slow operation"
    /\ wt.outcome.kind = "error"
    /\ wt.opResult = NoOutcome

\* C14: when the operation rejects while the deadline timer has not fired,
\* withTimeout fails with that very error, not with a timeout error.
C14_OperationErrorPropagates ==
    (wt.first = "operation" /\ wt.opResult.kind = "error") =>
        /\ wt.outcome = wt.opResult
        /\ wt.outcome.error.origin = "operation"
        /\ wt.outcome.error \in OpErrors

C14_Witness ==
    /\ wt.first = "operation"
    /\ wt.outcome.kind = "error"
    /\ wt.outcome.error.message = <<"Network error">>
    /\ ~wt.logged

\* The result of the input of the race that settled first.
C15_FirstResult ==
    IF wt.first = "operation"
    THEN wt.opResult
    ELSE timeoutError(wt.timeoutMs, wt.context)

\* C15: withTimeout settles at most once, with the result of whichever of
\* the operation and the deadline timer settled first, and a later
\* settlement of the other one leaves the reported outcome as it is.
C15_SettlesOnceWithFirst ==
    /\ [](/\ wt.settles <= 1
          /\ wt.settles = 1 <=> wt.first # "none"
          /\ wt.settles = 1 => wt.outcome = C15_FirstResult
          /\ wt.settles = 0 => wt.outcome = NoOutcome)
    /\ [][wt.outcome # NoOutcome => wt'.outcome = wt.outcome]_vars

\* The operation completed after the timeout had been reported.
C15_Witness ==
    /\ wt.first = "timer"
    /\ wt.opResult = [kind |-> "value", value |-> "too late"]
    /\ wt.outcome.kind = "error"
    /\ wt.settles = 1

\* A get of key k right after a set of k, with nothing in between.
C16_GetRightAfterSet(k) ==
    /\ sc.last.op = "set"
    /\ sc.last.key = k
    /\ ScGet(k)

\* C16 (as stated): for every key, value and ttl, set(k, v, ttl) followed
\* immediately by get(k) returns v.
C16_Original ==
    [][\A k \in Keys : C16_GetRightAfterSet(k) => sc'.last.value = sc.last.value]_vars

\* C16 (amended): for every key, value and ttl >= 0 (the default included),
\* set(k, v, ttl) followed immediately by get(k) returns v and leaves the
\* entry in place; with a negative ttl the get returns null.
C16_SetThenGet ==
    [][\A k \in Keys :
          C16_GetRightAfterSet(k) =>
              IF ttlOf(sc.last.ttl) >= 0
              THEN /\ sc'.last.value = sc.last.value
                   /\ sc'.cache = sc.cache
              ELSE sc'.last.value = Null]_vars

\* A get that returned the value stored by the set of ttl 0 just before it.
C16_Witness ==
    /\ sc.last.op = "get"
    /\ sc.last.afterSet
    /\ sc.last.value = "v2"
    /\ sc.last.key \in DOMAIN sc.cache
    /\ sc.cache[sc.last.key].expiresAt = sc.now
    /\ sc.now > 0

\* C17: a get of a key whose entry is stored and expired (now > expiresAt)
\* returns null and removes the entry, whether or not a cleanup has run; a
\* get that returns a value returns that of a stored, unexpired entry.
C17_ExpiredIsAbsent ==
    [][\A k \in Keys :
          ScGet(k) =>
              /\ (k \in DOMAIN sc.cache /\ sc.now > sc.cache[k].expiresAt) =>
                     /\ sc'.last.value = Null
                     /\ k \notin DOMAIN sc'.cache
              /\ sc'.last.value # Null =>
                     /\ k \in DOMAIN sc.cache
                     /\ sc.now <= sc.cache[k].expiresAt
                     /\ sc'.last.value = sc.cache[k].value]_vars

\* A get found an entry stored with the default TTL expired and removed it,
\* the other key still being stored.
C17_Witness ==
    /\ sc.last.op = "get"
    /\ sc.last.expired
    /\ sc.last.value = Null
    /\ sc.last.key \notin DOMAIN sc.cache
    /\ sc.now > CACHE_TTL_MS
    /\ DOMAIN sc.cache # {}

\* C18: a cleanup removes exactly the entries with now > expiresAt and
\* leaves every other entry as it was.
C18_CleanupRemovesExactlyExpired ==
    [][ScCleanup =>
          /\ DOMAIN sc'.cache =
                 {k \in DOMAIN sc.cache : ~(sc.now > sc.cache[k].expiresAt)}
          /\ \A k \in DOMAIN sc'.cache : sc'.cache[k] = sc.cache[k]
          /\ sc'.last.expiredCount =
                 Cardinality(DOMAIN sc.cache) - Cardinality(DOMAIN sc'.cache)]_vars

\* A cleanup removed one entry and kept one that expires at this very
\* millisecond.
C18_Witness ==
    /\ sc.last.op = "cleanup"
    /\ sc.last.expiredCount = 1
    /\ \E k \in DOMAIN sc.cache : sc.cache[k].expiresAt = sc.now

\* C19 (as stated): every stored entry has expiresAt > storedAt.
C19_Original ==
    \A k \in DOMAIN sc.cache : sc.cache[k].expiresAt > sc.cache[k].timestamp

\* C19 (amended): every stored entry was stored by a set and is never
\* modified afterwards; a set stores timestamp = now and expiresAt = now +
\* ttl, so that expiresAt > storedAt for every entry stored with ttl > 0
\* (the default and every ttl the callers pass), and expiresAt <= storedAt
\* for an entry stored with ttl <= 0.
C19_ExpiresAfterStoredForPositiveTtl ==
    [][\A k \in DOMAIN sc'.cache :
          \/ k \in DOMAIN sc.cache /\ sc'.cache[k] = sc.cache[k]
          \/ /\ sc'.last.op = "set"
             /\ sc'.last.key = k
             /\ sc'.cache[k].timestamp = sc.now
             /\ sc'.cache[k].expiresAt = sc.now + ttlOf(sc'.last.ttl)
             /\ ttlOf(sc'.last.ttl) > 0 =>
                    sc'.cache[k].expiresAt > sc'.cache[k].timestamp]_vars

\* An entry just stored with ttl 1 over an older entry of the same key.
C19_Witness ==
    /\ sc.last.op = "set"
    /\ sc.last.ttl = <<1>>
    /\ sc.now > 0
    /\ sc.cache[sc.last.key].timestamp = sc.now
    /\ sc.cache[sc.last.key].expiresAt = sc.now + 1
    /\ Cardinality(DOMAIN sc.cache) = 2

\* C20: the array processBatch returns has, at every position i, the result
\* of the i-th input item, whatever the batch size and the order in which
\* the items completed.
C20_BatchOrderPreserved ==
    pb.status = "returned" =>
        \A i \in 1..Len(pb.results) :
            /\ i <= Len(pb.items)
            /\ pb.results[i] = resultOf(pb.items[i])

\* Three distinct items in one batch, completed last-to-first.
C20_Witness ==
    /\ pb.status = "returned"
    /\ pb.items = <<"ISS-1", "ISS-2", "ISS-3">>
    /\ pb.batchSize = 3
    /\ pb.order = <<3, 2, 1>>

\* C21 (as stated): every run's progress invocations are non-decreasing in
\* completed, never exceed total, and the last one has completed = total.
C21_Original ==
    pb.status \in {"returned", "failed"} =>
        /\ \A j \in 1..Len(pb.progress) : pb.progress[j][1] <= pb.progress[j][2]
        /\ \A j \in 1..(Len(pb.progress) - 1) :
               pb.progress[j][1] <= pb.progress[j + 1][1]
        /\ Len(pb.items) > 0 =>
               /\ Len(pb.progress) > 0
               /\ pb.progress[Len(pb.progress)][1] = pb.progress[Len(pb.progress)][2]

\* C21 (amended): the progress invocations are non-decreasing in completed,
\* report total = items.length and never completed > total; a run that
\* returns ends them with completed = total (none for an empty list).
C21_ProgressMonotone ==
    /\ \A j \in 1..Len(pb.progress) :
           /\ pb.progress[j][2] = Len(pb.items)
           /\ pb.progress[j][1] <= pb.progress[j][2]
    /\ \A j \in 1..(Len(pb.progress) - 1) :
           pb.progress[j][1] <= pb.progress[j + 1][1]
    /\ pb.status = "returned" =>
           IF Len(pb.items) = 0
           THEN pb.progress = << >>
           ELSE /\ Len(pb.progress) > 0
                /\ pb.progress[Len(pb.progress)][1] = Len(pb.items)

\* Three items in batches of two: the last report is capped at the total.
C21_Witness ==
    /\ pb.status = "returned"
    /\ Len(pb.items) = 3
    /\ pb.batchSize = 2
    /\ pb.progress = <<<<2, 3>>, <<3, 3>>>>

\* C22 (as stated): every finished batch run, also one in which per-item
\* operations failed, yields a sequence of one outcome per input item
\* (success value or failure marker) as long as the input.
C22_Original ==
    pb.status \in {"returned", "failed"} =>
        /\ pb.status = "returned"
        /\ Len(pb.results) = Len(pb.items)
        /\ \A i \in 1..Len(pb.results) :
               pb.results[i] \in {resultOf(pb.items[i]), errorOf(pb.items[i])}

\* C22 (amended): a batch run that returns yields one success value per
\* input item, in input order, as long as the input; a run in which a
\* per-item operation fails yields no sequence but that item's error.
C22_OneResultPerItem ==
    /\ pb.status = "returned" =>
           /\ Len(pb.results) = Len(pb.items)
           /\ pb.results = [i \in 1..Len(pb.items) |-> resultOf(pb.items[i])]
           /\ pb.error = "none"
    /\ pb.status = "failed" =>
           \E p \in 1..Len(pb.items) : pb.error = errorOf(pb.items[p])

\* Three items returned from three batches of one.
C22_Witness ==
    /\ pb.status = "returned"
    /\ Len(pb.items) = 3
    /\ pb.batchSize = 1
    /\ Len(pb.results) = 3

\* C23: batches are strictly sequential and concurrency is bounded: an item
\* is started only when every item of every earlier batch has completed,
\* and at most batchSize per-item operations are in flight.
C23_BatchesSequential ==
    pb.status # "idle" =>
        LET completed == {pb.order[j] : j \in 1..Len(pb.order)}
            started == pb.pending \cup completed
            batchOf(p) == (p - 1) \div pb.batchSize
        IN  /\ \A p \in started, q \in 1..Len(pb.items) :
                   batchOf(q) < batchOf(p) => q \in completed
            /\ Cardinality(pb.pending) <= pb.batchSize

\* The second batch is in flight after the first completed out of order.
C23_Witness ==
    /\ pb.status = "running"
    /\ pb.batchSize = 2
    /\ pb.order = <<2, 1>>
    /\ pb.pending = {3}

\* How often item x occurs in the sequence seq.
occurrences(seq, x) == Cardinality({j \in 1..Len(seq) : seq[j] = x})

\* C24: the bulk status update catches failures per item instead of
\* aborting: the batch run never fails, and when the tool returns every
\* input item (every occurrence of an id in the input list) has exactly one
\* entry, in the successful list or in the failed list with a reason, so
\* successful + failed equals the number of input items.
C24_EveryItemRecordedOnce ==
    /\ pb.status # "failed"
    /\ bu.status = "returned" =>
           LET failedIds == [j \in 1..Len(bu.failed) |-> bu.failed[j][1]]
           IN  /\ Len(bu.successful) + Len(bu.failed) = Len(bu.issueIds)
               /\ \A id \in IssueIds :
                      occurrences(bu.issueIds, id) =
                          occurrences(bu.successful, id) + occurrences(failedIds, id)
               /\ \A j \in 1..Len(bu.failed) :
                      bu.failed[j][2] \in {"Invalid format", "Team not found",
                                           "Issue not found", "Status not found",
                                           "API error"}

\* One issue updated, the other one not found, after the first.
C24_Witness ==
    /\ bu.status = "returned"
    /\ bu.issueIds = <<<<"E", "N", "G", "-", "1">>, <<"E", "N", "G", "-", "2">>>>
    /\ bu.successful = <<<<"E", "N", "G", "-", "2">>>>
    /\ bu.failed = <<<<<<"E", "N", "G", "-", "1">>, "Issue not found">>>>

\* C25: within one tool invocation each upstream call is issued at most
\* once per input item, and once an item has its entry (also after a
\* timeout or failure of updateIssue) no call is issued for it again.
C25_NoUpstreamRetry ==
    /\ [](\A p \in DOMAIN bu.calls, k \in UpstreamCalls : bu.calls[p][k] <= 1)
    /\ [][\A p \in DOMAIN bu.pc :
              bu.pc[p] = "done" =>
                  /\ p \in DOMAIN bu'.pc
                  /\ bu'.pc[p] = "done"
                  /\ bu'.calls[p] = bu.calls[p]]_vars

\* updateIssue was issued once for the first item, ended in a timeout or
\* failure, and the tool has returned with the item among the failed.
C25_Witness ==
    /\ bu.status = "returned"
    /\ Len(bu.issueIds) >= 1
    /\ bu.calls[1]["updateIssue"] = 1
    /\ \E j \in 1..Len(bu.failed) :
           bu.failed[j] = <<bu.issueIds[1], "API error">>
    /\ bu.successful = << >>

\* C26: every inbound server/heartbeat message and every inbound handshake
\* message (initialize, initialized) sets lastHeartbeat to the time of
\* receipt, so that right after it no time has passed since the last
\* heartbeat.
C26_HeartbeatAndHandshakeRefresh ==
    [][(\/ Message("server/heartbeat")
        \/ Message("initialize")
        \/ Message("initialized")) => timeSinceLastHeartbeat' = 0]_vars

\* C27: once isPipeActive is false, reconnection is impossible and shutdown
\* is the only transition: in every reachable state ~isPipeActive implies
\* isShuttingDown, isPipeActive never becomes true again, and no reconnect
\* call of server.connect() is issued from then on (a reconnect timer that
\* fires with the pipe inactive calls shutdown() instead).
C27_PipeInactiveIsTerminal ==
    /\ [](~isPipeActive => isShuttingDown)
    /\ [][~isPipeActive =>
              /\ ~isPipeActive'
              /\ isShuttingDown'
              /\ obs'.connectCalls = obs.connectCalls
              /\ connecting' <= connecting]_vars

\* A reconnect timer was armed, the pipe broke, and the timer fired
\* without a connect call, its shutdown() returning at the latch.
C27_Witness ==
    /\ ~isPipeActive
    /\ obs.scheduled = 1
    /\ reconnectTimers = << >>
    /\ obs.connectCalls = 0
    /\ obs.latchHit

\* C28: if a per-item operation fails, processBatch itself fails with that
\* item's error; from then on no item of a later batch is started and no
\* progress callback is made, for the failing batch or afterwards.
C28_FailureAbortsRun ==
    /\ [][\A p \in 1..MaxItems :
              (pb.status = "running" /\ PbItemRejects(p)) =>
                  /\ pb'.status = "failed"
                  /\ pb'.error = errorOf(pb.items[p])
                  /\ pb'.progress = pb.progress]_vars
    /\ [][pb.status = "failed" =>
              /\ pb'.status = "failed"
              /\ pb'.error = pb.error
              /\ pb'.progress = pb.progress
              /\ pb'.pending \subseteq pb.pending]_vars
    /\ [](pb.status = "failed" =>
              /\ \A j \in 1..Len(pb.progress) : pb.progress[j][1] <= pb.i
              /\ \A p \in pb.pending : p <= pb.i + pb.batchSize
              /\ \A j \in 1..Len(pb.order) : pb.order[j] <= pb.i + pb.batchSize)

\* Batches of one: the first item was reported, the second rejected, the
\* third was never started.
C28_Witness ==
    /\ pb.status = "failed"
    /\ Len(pb.items) = 3
    /\ pb.batchSize = 1
    /\ pb.error = errorOf(pb.items[2])
    /\ pb.progress = <<<<1, 3>>>>
    /\ pb.order = <<1, 2>>
    /\ pb.pending = {}

\* C29: set on an existing key overwrites it (last write wins): after
\* set(k, v1, t1) followed by set(k, v2, t2) the entry for k has value v2,
\* storedAt the time of the second set and expiresAt that time plus t2,
\* whatever v1 and t1 were; the number of entries and the other entries are
\* unchanged.
C29_LastWriteWins ==
    [][\A k \in Keys, v \in Values, arg \in TtlArgs :
          (k \in DOMAIN sc.cache /\ ScSet(k, v, arg)) =>
              /\ sc'.cache[k].value = v
              /\ sc'.cache[k].timestamp = sc.now
              /\ sc'.cache[k].expiresAt = sc.now + ttlOf(arg)
              /\ DOMAIN sc'.cache = DOMAIN sc.cache
              /\ \A other \in DOMAIN sc.cache \ {k} :
                     sc'.cache[other] = sc.cache[other]]_vars

\* v2 was just stored with ttl 1 over an entry that held v1.
C29_Witness ==
    /\ sc.last.op = "set"
    /\ sc.last.replaced = "v1"
    /\ sc.last.value = "v2"
    /\ sc.last.ttl = <<1>>
    /\ sc.now = CACHE_TTL_MS
    /\ sc.cache[sc.last.key] =
           [value |-> "v2", timestamp |-> sc.now, expiresAt |-> sc.now + 1]

\* C30: a failure of transport.close() during shutdown is not re-raised and
\* does not stop the teardown: a broken-pipe closure error only records
\* isPipeActive = false and starts no second teardown, any other closure
\* error changes nothing, and in both cases the grace timer is armed and
\* the teardown is left only by the exit with status 0.
C30_CloseFailureDoesNotStopTeardown ==
    /\ [][\A code \in ErrorCodes :
              CloseSettles(code) =>
                  /\ isPipeActive' = (isPipeActive /\ code # "EPIPE")
                  /\ isShuttingDown'
                  /\ obs'.teardowns = obs.teardowns
                  /\ obs'.closeCalls = obs.closeCalls
                  /\ pcShutdown' = "grace"
                  /\ graceElapsed' = 0
                  /\ obs'.graceWaits = obs.graceWaits + 1
                  /\ ~exited']_vars
    /\ [][(pcShutdown = "grace" /\ pcShutdown' # "grace") =>
              /\ pcShutdown' = "done"
              /\ exited'
              /\ exitCode' = 0]_vars

\* The monolith was asked to stop before its transport was started, the
\* close failed with a broken pipe, and the process has exited with 0
\* after the one grace period.
C30_Witness ==
    /\ layout = "monolith"
    /\ pcStart # "running"
    /\ ~isPipeActive
    /\ obs.closeSettled = 1
    /\ obs.teardowns = 1
    /\ obs.graceWaits = 1
    /\ pcShutdown = "done"
    /\ exitCode = 0

\* C31: at most one heartbeat supervision timer is active at any time,
\* however many inbound messages have been handled.
C31_OneHeartbeatTimer ==
    Len(heartbeatChecks) <= 1

\* C32: after the isShuttingDown latch is set no reconnect call of
\* server.connect() is issued, also not by a reconnect timer that was
\* scheduled before shutdown began and fires during the grace period.
C32_NoConnectWhileShuttingDown ==
    [][isShuttingDown =>
          /\ obs'.connectCalls = obs.connectCalls
          /\ connecting' <= connecting]_vars

\* C33: over the whole process lifetime the transport error handler
\* schedules at most MAX_RECONNECT_ATTEMPTS reconnection attempts, one per
\* increment of reconnectAttempts, also across outages separated by
\* successful reconnections or handshakes.
C33_LifetimeAttemptsBounded ==
    /\ obs.scheduled <= MAX_RECONNECT_ATTEMPTS
    /\ obs.scheduled = reconnectAttempts
    /\ obs.connectCalls <= obs.scheduled

\* The last of the attempts was scheduled and has succeeded after the
\* session had already recovered from earlier errors: the session is
\* connected, not shutting down, and has no attempt left.
C33_Witness ==
    /\ obs.scheduled = MAX_RECONNECT_ATTEMPTS
    /\ obs.connectCalls = MAX_RECONNECT_ATTEMPTS
    /\ obs.liveErrors = MAX_RECONNECT_ATTEMPTS
    /\ ~obs.lost
    /\ isConnected
    /\ ~isShuttingDown
    /\ connecting = 0

\* C34: isConnected starts false, becomes true only when an initialize or
\* initialized message is handled or a reconnection attempt succeeds, and
\* no transition (transport error, heartbeat timeout, pipe closure,
\* shutdown) sets it back to false.
C34_ConnectedOnlyRises ==
    /\ [](pcStart = "env" => ~isConnected)
    /\ [][isConnected => isConnected']_vars
    /\ [][(~isConnected /\ isConnected') =>
              \/ Message("initialize")
              \/ Message("initialized")
              \/ ReconnectSettles(TRUE)]_vars

\* Still marked connected after a heartbeat timeout, the exhaustion of the
\* attempts, a broken pipe and the start of shutdown.
C34_Witness ==
    /\ isConnected
    /\ obs.heartbeatTimedOut
    /\ reconnectAttempts = MAX_RECONNECT_ATTEMPTS
    /\ ~isPipeActive
    /\ isShuttingDown

\* C35: at most one reconnection attempt (a pending backoff timer or a
\* connect call in progress) exists at any time.
C35_OneAttemptAtATime ==
    Len(reconnectTimers) + connecting <= 1

\* C36: reads do not change live entries: get on a present, unexpired key
\* returns its value and leaves that entry and every other entry as they
\* were (a read never extends the TTL), and get on an absent key returns
\* null and changes nothing.
C36_GetLeavesLiveEntries ==
    [][\A k \in Keys :
          ScGet(k) =>
              /\ (k \in DOMAIN sc.cache /\ sc.now <= sc.cache[k].expiresAt) =>
                     /\ sc'.last.value = sc.cache[k].value
                     /\ sc'.cache = sc.cache
              /\ k \notin DOMAIN sc.cache =>
                     /\ sc'.last.value = Null
                     /\ sc'.cache = sc.cache
              /\ sc'.now = sc.now]_vars

\* A get has just returned the value of an entry stored some time ago,
\* with another entry in the Map and the expiry where the set put it.
C36_Witness ==
    /\ sc.last.op = "get"
    /\ sc.last.value = "v1"
    /\ Cardinality(DOMAIN sc.cache) = 2
    /\ sc.cache[sc.last.key].timestamp < sc.now
    /\ sc.cache[sc.last.key].expiresAt = sc.cache[sc.last.key].timestamp + CACHE_TTL_MS

\* C37: the periodic sweep is observationally transparent: for the same
\* set, get, delete and clear operations and clock advances, every get
\* returns the same value on the cache that is swept at arbitrary points
\* (sc) and on the one that is never swept (sw); the two differ only in
\* expired entries that the sweep has removed.
C37_SweepTransparent ==
    /\ [][\A k \in Keys : SwGet(k) => sc'.last.value = sw'.last.value]_vars
    /\ [](\A k \in Keys :
              /\ k \in DOMAIN sc.cache =>
                     (k \in DOMAIN sw.cache /\ sc.cache[k] = sw.cache[k])
              /\ (k \in DOMAIN sw.cache /\ k \notin DOMAIN sc.cache) =>
                     sw.now > sw.cache[k].expiresAt)

\* A get has returned v1 on both caches although a sweep has removed an
\* expired entry from one of them only.
C37_Witness ==
    /\ sc.last.op = "get"
    /\ sw.last.op = "get"
    /\ sc.last.value = "v1"
    /\ sw.last.value = "v1"
    /\ DOMAIN sc.cache # DOMAIN sw.cache

\* An entry of the cache is added or replaced by the step.
CacheWritten ==
    \E k \in DOMAIN sc'.cache : k \notin DOMAIN sc.cache \/ sc'.cache[k] # sc.cache[k]

\* C38: a cache-backed lookup writes to the cache only in the step in which
\* its upstream call settles the race of withTimeout with an answer that was
\* found; a step in which the race settles with an error (a rejection or the
\* timeout) leaves the entries unchanged, and so does a step in which the
\* upstream call settles after the timeout was reported.
C38_WritesOnlyAfterSuccess ==
    [][/\ CacheWritten =>
            /\ lk.pc = "awaiting"
            /\ wt.race = NoOutcome
            /\ wt'.race.kind = "value"
            /\ wt'.first = "operation"
            /\ found(lk.fn, wt'.race.value)
       /\ (wt.race = NoOutcome /\ wt'.race.kind = "error") => sc'.cache = sc.cache
       /\ (wt.race.kind = "error" /\ wt.opResult = NoOutcome
             /\ wt'.opResult # NoOutcome) => sc'.cache = sc.cache]_vars

\* An answer that was found arrived after the timeout had been reported, and
\* the key of the lookup is not in the cache.
C38_Witness ==
    /\ lk.pc = "threw"
    /\ wt.first = "timer"
    /\ wt.opResult.kind = "value"
    /\ found(lk.fn, wt.opResult.value)
    /\ cacheKey(lk.fn) \notin DOMAIN sc.cache

\* Math.ceil(n / d) for integers n >= 0 and d >= 1.
ceilDiv(n, d) == (n + d - 1) \div d

\* C39: when every per-item operation settles, a call of processBatch with a
\* batch size >= 1 comes to an end (it returns or it fails); a call that
\* returns, which is one all of whose items succeeded, has run exactly
\* ceil(N / batchSize) batches and has invoked the progress callback once
\* per batch.
C39_TerminatesInCeilBatches ==
    /\ [](pb.status = "returned" =>
             /\ pb.batchSize >= 1
             /\ pb.i = ceilDiv(Len(pb.items), pb.batchSize) * pb.batchSize
             /\ Len(pb.progress) = ceilDiv(Len(pb.items), pb.batchSize)
             /\ Len(pb.order) = Len(pb.items))
    /\ [](pb.status = "running" => pb.pending # {})
    /\ (pb.status = "running") ~> (pb.status \in {"returned", "failed"})

\* Three items in batches of two came back after two batches, the second of
\* one item.
C39_Witness ==
    /\ pb.status = "returned"
    /\ Len(pb.items) = 3
    /\ pb.batchSize = 2
    /\ pb.i = 4
    /\ Len(pb.progress) = 2
    /\ pb.order = <<2, 1, 3>>

\* C40: once the shuttingDown latch is set the process eventually exits,
\* given that the close call settles and timers fire; until it does the
\* latch stays set and the teardown stays pending (closing, then the grace
\* period, whose elapsed time never goes back), whatever else happens.
C40_LatchLeadsToExit ==
    /\ isShuttingDown ~> exited
    /\ [](isShuttingDown /\ ~exited => pcShutdown \in {"closing", "grace"})
    /\ [][isShuttingDown /\ ~exited =>
              /\ isShuttingDown'
              /\ pcShutdown = "grace" =>
                     /\ pcShutdown' \in {"grace", "done"}
                     /\ graceElapsed' >= graceElapsed
                     /\ obs'.graceWaits = obs.graceWaits]_vars

\* The process has exited with 0 after one teardown although, with the latch
\* set, a further trigger arrived, the pipe broke and the heartbeat went
\* stale.
C40_Witness ==
    /\ exited
    /\ pcShutdown = "done"
    /\ exitCode = 0
    /\ obs.teardowns = 1
    /\ obs.latchHit
    /\ ~isPipeActive
    /\ isConnected
    /\ timeSinceLastHeartbeat = AgeCap

====
